---------------------------- MODULE Spec2Model ----------------------------
(***************************************************************************)
(* mediatk: config resolution (config.py), directory scanning and          *)
(* compliance checking (scanner.py), parameter building (processor.py),    *)
(* the process and search commands (cli.py) and media transfer             *)
(* (transfer.py).                                                          *)
(*                                                                         *)
(* Python values are modelled as tagged records [t, v]: a str is           *)
(* [t |-> "str", v |-> <<s>>], a list of str is [t |-> "list", v |-> seq], *)
(* a pathlib.Path is [t |-> "Path", v |-> <<s>>].  The outcome of a call   *)
(* is [exc, val]: exc = "none" when the call returns val, otherwise the    *)
(* name of the exception that leaves the call.                             *)
(***************************************************************************)
EXTENDS Integers, Sequences, FiniteSets, TLC

VARIABLES
    cfg_files,      \* config: directory depth -> content of its mediatk.yaml
    cfg_target,     \* config: depth of the path last resolved (0: none yet)
    cfg_previous,   \* config: depth of the path resolved before that one
    env_config,     \* config: outcome of the last get_environment_config
    scan_walk,      \* scanner: the files under the scanned directory, as
                    \*          os.walk lists them: a sequence of [root, file]
    scan_call,      \* scanner: the arguments of the last find_videos call
    scan_result,    \* scanner: outcome of the last find_videos call
    scan_examined,  \* scanner: files that call handed to is_video_file
    compl_call,     \* compliance: the probe outcome and the configuration
                    \*             of the last get_video_compliance call
    compl_result,   \* compliance: outcome of that call
    search_call,    \* search command: its path, the tree it searches, the
                    \*                 probe outcome of every file, the config
    search_result,  \* search command: outcome, with the report it saved
    proc_call,      \* processor: the input file, its probe outcome and the
                    \*            configuration of the last process call
    proc_result,    \* processor: outcome of that call
    ffmpeg_runs,    \* processor: the ffmpeg.run invocations made, in order
    sel_call,       \* processor: the probe and the configuration handed to
                    \*            collect_audio_streams / collect_subtitle_streams
    sel_audio,      \* processor: what collect_audio_streams returned
    sel_subtitles,  \* processor: what collect_subtitle_streams returned
    sel_params,     \* processor: the parameters built from the two selections
    cmd_call,       \* process command: the file it is run on, its probe
                    \*                  outcome, the configuration, --compare
    cmd_result,     \* process command: outcome of the command
    cmd_files,      \* process command: what lies at the input path, the
                    \*                  backup path and the output path
    fs,             \* transfer: the file system, path -> "<dir>" or file data
    fs_initial,     \* transfer: the file system when the transfer started
    t_stack,        \* transfer: the active transfer_media_files calls,
                    \*           innermost last, each with its os.walk state
    t_status        \* transfer: "idle", "running", "done", or "raised"

cfg_vars == <<cfg_files, cfg_target, cfg_previous, env_config>>

scan_vars == <<scan_walk, scan_call, scan_result, scan_examined>>

compl_vars == <<compl_call, compl_result, search_call, search_result>>

proc_vars ==
    <<proc_call, proc_result, ffmpeg_runs, sel_call, sel_audio, sel_subtitles,
      sel_params, cmd_call, cmd_result, cmd_files>>

transfer_vars == <<fs, fs_initial, t_stack, t_status>>

vars == <<cfg_vars, scan_vars, compl_vars, proc_vars, transfer_vars>>

(***************************************************************************)
(* Python values and call outcomes                                         *)
(***************************************************************************)
Str(s) == [t |-> "str", v |-> <<s>>]

List(q) == [t |-> "list", v |-> q]

PathV(s) == [t |-> "Path", v |-> <<s>>]

Returns(x) == [exc |-> "none", val |-> x]

Raises(e) == [exc |-> e, val |-> <<>>]

\* hasattr(obj, name) for an object modelled as a record of its attributes
HasAttr(obj, name) == name \in DOMAIN obj

(***************************************************************************)
(* config.py                                                               *)
(***************************************************************************)
\* deepest directory chain the model resolves: / , /d1 , /d1/d2 , ...
MaxDepth == 3

\* config.py:11-17, a fresh VidConfig(): every call builds new default lists
VidConfig_shared ==
    IF cfg_target # 0 /\ env_config.exc = "none"
    THEN env_config.val
    ELSE [container |-> Str("mkv"), video_codec |-> Str("hevc"),
          audio_codec |-> Str("aac"),
          language |-> List(<<"eng", "spa", "esp">>),
          subtitles |-> List(<<"eng", "spa", "esp">>),
          backup_dir |-> PathV("backup")]

VidConfig ==
    [container |-> Str("mkv"), video_codec |-> Str("hevc"),
     audio_codec |-> Str("aac"),
     language |-> List(<<"eng", "spa", "esp">>),
     subtitles |-> List(<<"eng", "spa", "esp">>),
     backup_dir |-> PathV("backup")]

\* keys an override file of the model may hold: three recognized ones (a str
\* field, a list field, the Path field) and one unknown
OverrideKeys == {"container", "language", "backup_dir", "bogus"}

\* values an override file of the model may give a key
OverrideValues == {Str("mp4"), List(<<"fra">>)}

\* a YAML mapping with the keys ks, all given the value x
DictOf(ks, x) == [k \in ks |-> x]

\* what a directory may hold as mediatk.yaml: no file, a file yaml.safe_load
\* rejects, an empty document (safe_load gives None), or a mapping
OverrideDocs ==
    {[kind |-> "nofile", d |-> DictOf({}, Str(""))],
     [kind |-> "malformed", d |-> DictOf({}, Str(""))],
     [kind |-> "none", d |-> DictOf({}, Str(""))]}
    \cup {[kind |-> "dict", d |-> DictOf({k}, x)] :
              k \in OverrideKeys, x \in OverrideValues}
    \cup {[kind |-> "dict",
           d |-> [k \in {"container", "language"} |->
                     IF k = "container" THEN Str("avi") ELSE Str("jpn")]]}

\* config.py:24-35, the value setattr stores for one recognized key
StoredValue(attr, value) ==
    CASE attr.t = "list" ->
            IF value.t = "list" THEN Returns(value)
            ELSE Returns(List(value.v))
      [] attr.t = "Path" ->
            IF value.t = "Path" THEN Returns(value)
            ELSE IF value.t = "str" THEN Returns(PathV(value.v[1]))
            ELSE Raises("TypeError")
      [] OTHER -> Returns(value)

\* config.py:19-37, VidConfig.update_from_dict; unknown keys only warn
update_from_dict(self, config_dict) ==
    LET known == {k \in DOMAIN config_dict : HasAttr(self, k)}
    IN  IF \E k \in known : StoredValue(self[k], config_dict[k]).exc # "none"
        THEN Raises("TypeError")
        ELSE Returns([k \in DOMAIN self |->
                        IF k \in known
                        THEN StoredValue(self[k], config_dict[k]).val
                        ELSE self[k]])

\* config.py:100-119, parse_yaml_config: a YAMLError gives {}, an empty
\* document gives None
parse_yaml_config(doc) ==
    CASE doc.kind = "dict" -> [none |-> FALSE, d |-> doc.d]
      [] doc.kind = "none" -> [none |-> TRUE, d |-> doc.d]
      [] OTHER -> [none |-> FALSE, d |-> DictOf({}, Str(""))]

\* root-to-leaf list of the depths 1..n
RECURSIVE UpTo(_)
UpTo(n) == IF n = 0 THEN <<>> ELSE Append(UpTo(n - 1), n)

\* leaf-to-root list of the depths n..1
RECURSIVE DownFrom(_)
DownFrom(n) == IF n = 0 THEN <<>> ELSE <<n>> \o DownFrom(n - 1)

HasConfigFile(i) == cfg_files[i].kind # "nofile"

find_all_yaml_configs_leaf_first(start_path) ==
    SelectSeq(DownFrom(start_path), HasConfigFile)

\* config.py:62-97, the directories of the chain that hold a mediatk.yaml,
\* ordered from the root to the start path
find_all_yaml_configs(start_path) ==
    SelectSeq(UpTo(start_path), HasConfigFile)

\* config.py:56-58, the loop over env_files; None.items() is an AttributeError
RECURSIVE ApplyOverrides(_, _)
ApplyOverrides(outcome, env_files) ==
    IF env_files = <<>> \/ outcome.exc # "none" THEN outcome
    ELSE LET override == parse_yaml_config(cfg_files[Head(env_files)])
         IN  IF override.none THEN Raises("AttributeError")
             ELSE ApplyOverrides(update_from_dict(outcome.val, override.d),
                                 Tail(env_files))

\* config.py:44-59
get_environment_config(path) ==
    /\ env_config' = ApplyOverrides(Returns(VidConfig),
                                    find_all_yaml_configs(path))
    /\ cfg_target' = path
    /\ cfg_previous' = cfg_target
    /\ UNCHANGED <<cfg_files, scan_vars, compl_vars, proc_vars, transfer_vars>>

(***************************************************************************)
(* scanner.py: find_videos                                                 *)
(***************************************************************************)
\* most files the scanned tree holds
MaxWalk == 3

\* largest positive max_count tried
MaxCount == 2

\* scanner.py:10
VIDEO_EXTENSIONS ==
    {".mp4", ".avi", ".mkv", ".mov", ".wmv", ".flv", ".webm", ".mpeg", ".mpg"}

\* file names of the model
ScanNames == {"a.mp4", "B.MKV", "c.wmv", "d.txt"}

\* the directories of the scanned tree, in os.walk's top-down order
ScanRoots == <<"top", "top/sub">>

\* pathlib's Path.suffix / the ending str.endswith compares, per name
Suffix(name) ==
    CASE name = "a.mp4" -> ".mp4"
      [] name = "B.MKV" -> ".MKV"
      [] name = "c.wmv" -> ".wmv"
      [] OTHER -> ".txt"

\* str.lower() on a suffix
Lower(ext) == IF ext = ".MKV" THEN ".mkv" ELSE ext

\* a file name as the str os.walk yields
StrName(name) == [t |-> "str", v |-> <<name>>, is_file |-> TRUE]

\* Path(path) for a path that is a regular file or not
PathObj(name, isfile) == [t |-> "Path", v |-> <<name>>, is_file |-> isfile]

\* scanner.py:52-62, the first is_video_file: rebound by the def at line 67
\* before anything calls it
is_video_file_endswith(file_path) ==
    Returns(\E ext \in VIDEO_EXTENSIONS : Lower(Suffix(file_path.v[1])) = ext)

\* scanner.py:67-69, the is_video_file the module name is bound to:
\* file_path.is_file() is an AttributeError on a str
is_video_file(file_path) ==
    IF file_path.t # "Path" THEN Raises("AttributeError")
    ELSE Returns(file_path.is_file
                 /\ Lower(Suffix(file_path.v[1])) \in {".mp4", ".avi", ".mov", ".mkv"})

\* the filter predicates of the model over a candidate [root, file]:
\* no filter, one accepting only files of the subdirectory, one rejecting a.mp4
FilterFns == {"None", "in_sub", "not_a"}

\* scanner.py:46, filter_fn is None or filter_fn(file_path)
PassesFilter(filter_fn, entry) ==
    CASE filter_fn = "None" -> TRUE
      [] filter_fn = "in_sub" -> entry.root = "top/sub"
      [] filter_fn = "only_mp4" -> Suffix(entry.file) = ".mp4"
      [] OTHER -> entry.file # "a.mp4"

\* scanner.py:42-50, the os.walk loop from entry i on; gives the outcome and
\* the number of files handed to is_video_file
RECURSIVE WalkLoop(_, _, _, _, _)
WalkLoop(walk, i, video_files, max_count, filter_fn) ==
    IF i > Len(walk) THEN [out |-> Returns(video_files), examined |-> i - 1]
    ELSE LET isvid == is_video_file(StrName(walk[i].file))
         IN  IF isvid.exc # "none"
             THEN [out |-> Raises(isvid.exc), examined |-> i]
             ELSE IF isvid.val /\ PassesFilter(filter_fn, walk[i])
             THEN LET found == Append(video_files, walk[i])
                  IN  IF max_count > 0 /\ Len(found) >= max_count
                      THEN [out |-> Returns(found), examined |-> i]
                      ELSE WalkLoop(walk, i + 1, found, max_count, filter_fn)
             ELSE WalkLoop(walk, i + 1, video_files, max_count, filter_fn)

\* scanner.py:22-50 on a path that is a regular file
FindVideosOfFile(path) ==
    LET isvid == is_video_file(PathObj(path.file, TRUE))
    IN  IF isvid.exc # "none" THEN [out |-> Raises(isvid.exc), examined |-> 1]
        ELSE [out |-> Returns(IF isvid.val THEN <<path>> ELSE <<>>),
              examined |-> 1]

\* scanner.py:22-50, find_videos(path, max_count, filter_fn); kind says whether
\* path is the directory "top" or one regular file of the tree
find_videos(kind, path, max_count, filter_fn) ==
    /\ scan_call.kind = "none"
    /\ kind \in {"dir", "file"}
    /\ kind = "file" => \E i \in 1..Len(scan_walk) : scan_walk[i] = path
    /\ kind = "dir" => path = [root |-> "top", file |-> ""]
    /\ LET r == IF kind = "file" THEN FindVideosOfFile(path)
                ELSE WalkLoop(scan_walk, 1, <<>>, max_count, filter_fn)
       IN  /\ scan_result' = r.out
           /\ scan_examined' = r.examined
    /\ scan_call' = [kind |-> kind, path |-> path, max_count |-> max_count,
                     filter_fn |-> filter_fn]
    /\ UNCHANGED <<scan_walk, cfg_vars, compl_vars, proc_vars, transfer_vars>>

\* the sequences over S without repeats, of length n
RECURSIVE DistinctSeqs(_, _)
DistinctSeqs(S, n) ==
    IF n = 0 THEN {<<>>}
    ELSE UNION {{Append(q, x) : x \in S \ {q[j] : j \in 1..Len(q)}} :
                    q \in DistinctSeqs(S, n - 1)}

\* what os.walk can list: the files of "top", then those of "top/sub", no
\* name twice in one directory, MaxWalk files at most
Walks ==
    UNION {UNION {{[j \in 1..(a + b) |->
                       IF j <= a THEN [root |-> ScanRoots[1], file |-> qa[j]]
                       ELSE [root |-> ScanRoots[2], file |-> qb[j - a]]] :
                     qa \in DistinctSeqs(ScanNames, a),
                     qb \in DistinctSeqs(ScanNames, b)} :
                  b \in 0..(MaxWalk - a)} :
           a \in 0..MaxWalk}

(***************************************************************************)
(* scanner.py: get_video_compliance                                        *)
(***************************************************************************)
\* most streams a probed file of the model holds
MaxStreams == 2

\* obj.name: an AttributeError when the object has no such attribute
GetAttr(obj, name) ==
    IF HasAttr(obj, name) THEN Returns(obj[name]) ELSE Raises("AttributeError")

\* `value in a_set` / `a_dict.get(value)`: hashing a list is a TypeError
InSet(value, S) ==
    IF value.t = "list" THEN Raises("TypeError") ELSE Returns(value.v[1] \in S)

\* the configurations the resolver can hand to the scanner and the processor:
\* the defaults, and the defaults under each override mapping of the model
ReachableConfigs ==
    {VidConfig} \cup
    {update_from_dict(VidConfig, doc.d).val :
        doc \in {x \in OverrideDocs :
                    x.kind = "dict" /\ update_from_dict(VidConfig, x.d).exc = "none"}}
    \cup {update_from_dict(VidConfig, DictOf({"subtitles"}, x)).val :
            x \in {List(<<"eng">>), List(<<"eng", "eng">>), List(<<>>)}}
    \cup {update_from_dict(VidConfig, DictOf({"language", "subtitles"}, x)).val :
            x \in {List(<<"fra", "eng">>), List(<<"und", "eng">>)}}

\* the streams ffprobe may report; language "" is a stream without the tag
ProbeStreams ==
    {[codec_type |-> "video", codec_name |-> "hevc", language |-> "", channels |-> 0],
     [codec_type |-> "video", codec_name |-> "h264", language |-> "", channels |-> 0],
     [codec_type |-> "audio", codec_name |-> "aac", language |-> "eng", channels |-> 2],
     [codec_type |-> "audio", codec_name |-> "ac3", language |-> "fra", channels |-> 6],
     [codec_type |-> "audio", codec_name |-> "dts", language |-> "", channels |-> 6],
     [codec_type |-> "subtitle", codec_name |-> "subrip", language |-> "eng", channels |-> 0],
     [codec_type |-> "subtitle", codec_name |-> "subrip", language |-> "fra", channels |-> 0],
     [codec_type |-> "subtitle", codec_name |-> "ass", language |-> "", channels |-> 0]}

\* the sequences over S of length at most n
RECURSIVE SeqsUpTo(_, _)
SeqsUpTo(S, n) ==
    IF n = 0 THEN {<<>>}
    ELSE LET shorter == SeqsUpTo(S, n - 1)
         IN  shorter \cup {Append(q, x) : q \in {r \in shorter : Len(r) = n - 1}, x \in S}

\* what ffmpeg.probe gives: ffmpeg.Error (ok = FALSE), or the streams and the
\* names of the comma-separated format_name
Probes ==
    {[ok |-> FALSE, streams |-> <<>>, format_names |-> {}]} \cup
    {[ok |-> TRUE, streams |-> q, format_names |-> f] :
        q \in SeqsUpTo(ProbeStreams, MaxStreams),
        f \in {{"matroska", "webm"}, {"mov", "mp4", "m4a"}}}

StreamsOfType(probe, type) ==
    {probe.streams[i] : i \in {j \in 1..Len(probe.streams) :
                                  probe.streams[j].codec_type = type}}

\* scanner.py:95-112
video_codecs(probe) == {st.codec_name : st \in StreamsOfType(probe, "video")}

audio_codecs(probe) == {st.codec_name : st \in StreamsOfType(probe, "audio")}

subtitle_languages(probe) ==
    {st.language : st \in {x \in StreamsOfType(probe, "subtitle") : x.language # ""}}

\* scanner.py:11-20 and 139
VIDEO_EXTENSIONS_TO_CONTAINER(ext) ==
    CASE ext = "mp4" -> "mpeg-4"
      [] ext = "avi" -> "avi"
      [] ext = "mkv" -> "matroska"
      [] ext = "mov" -> "quickTime"
      [] ext = "wmv" -> "windows media video"
      [] ext = "flv" -> "flash video"
      [] ext = "webm" -> "WebM"
      [] ext = "mpeg" -> "mpeg"
      [] OTHER -> ext

\* scanner.py:125, `a in audio_codecs or b in audio_codecs`, each operand an
\* attribute read that may raise, the second evaluated only if the first is false
AudioCodecCheck(probe, vidconfig) ==
    LET stereo == GetAttr(vidconfig, "audio_codec_stereo")
        surround == GetAttr(vidconfig, "audio_codec_surround")
    IN  IF stereo.exc # "none" THEN Raises(stereo.exc)
        ELSE LET first == InSet(stereo.val, audio_codecs(probe))
             IN  IF first.exc # "none" THEN first
                 ELSE IF first.val THEN Returns(TRUE)
                 ELSE IF surround.exc # "none" THEN Raises(surround.exc)
                 ELSE InSet(surround.val, audio_codecs(probe))

\* scanner.py:131-133
SubtitlesCheck(probe, vidconfig) ==
    LET configured == vidconfig.subtitles.v
        missing_subtitles ==
            SelectSeq(configured, LAMBDA lang : lang \notin subtitle_languages(probe))
        extra_subtitles == Cardinality(subtitle_languages(probe)) > Len(configured)
    IN  missing_subtitles = <<>> /\ ~extra_subtitles

\* scanner.py:139-140
ContainerCheck(probe, vidconfig) ==
    IF vidconfig.container.t = "list" THEN Raises("TypeError")
    ELSE Returns(VIDEO_EXTENSIONS_TO_CONTAINER(vidconfig.container.v[1])
                    \in probe.format_names)

\* the text of an explanation entry is not modelled, its key is
Verbose(keys) == [k \in keys |-> "text"]

\* scanner.py:74-154, get_video_compliance on the outcome of ffmpeg.probe:
\* the pair (compliance_results, compliance_results_verbose)
get_video_compliance(probe, vidconfig) ==
    IF ~probe.ok
    THEN Returns([results |-> [k \in {"probe_error"} |-> FALSE],
                  verbose |-> Verbose({})])
    ELSE LET video == InSet(vidconfig.video_codec, video_codecs(probe))
             audio == AudioCodecCheck(probe, vidconfig)
             subs == SubtitlesCheck(probe, vidconfig)
             cont == ContainerCheck(probe, vidconfig)
             keys == {"video_codec", "audio_codec", "subtitles", "container"}
         IN  IF video.exc # "none" THEN video
             ELSE IF audio.exc # "none" THEN audio
             ELSE IF cont.exc # "none" THEN cont
             ELSE LET four == [k \in keys |->
                                 CASE k = "video_codec" -> video.val
                                   [] k = "audio_codec" -> audio.val
                                   [] k = "subtitles" -> subs
                                   [] OTHER -> cont.val]
                      overall == \A k \in keys : four[k]
                  IN  Returns([results |-> [k \in keys \cup {"overall"} |->
                                              IF k = "overall" THEN overall
                                              ELSE four[k]],
                               verbose |-> Verbose(keys \cup {"overall"})])

\* the call get_video_compliance(input_file, vidconfig) on the file and the
\* configuration at hand
GetVideoCompliance ==
    /\ ~compl_call.called
    /\ compl_call' = [compl_call EXCEPT !.called = TRUE]
    /\ compl_result' = get_video_compliance(compl_call.probe, compl_call.vidconfig)
    /\ UNCHANGED <<search_call, search_result>>
    /\ UNCHANGED <<cfg_vars, scan_vars, proc_vars, transfer_vars>>

(***************************************************************************)
(* processor.py                                                            *)
(***************************************************************************)
\* the value process returns: None, or the output path output_<stem>.<container>
\* in the directory dir
NoneValue == [is_none |-> TRUE, dir |-> "", name |-> <<>>]

OutputPath(dir, stem, container) ==
    [is_none |-> FALSE, dir |-> dir, name |-> <<"output_", stem, container>>]

\* processor.py:142-174, determine_video_filter: is there a video stream
HasVideoStream(probe) == StreamsOfType(probe, "video") # {}

\* processor.py:194 and 229, stream.get('tags', {}).get('language', 'und')
StreamLang(st) == IF st.language = "" THEN "und" ELSE st.language

\* the positions of the probe's streams of one type, in declaration order
TypeIndices(probe, type) ==
    SelectSeq(UpTo(Len(probe.streams)), LAMBDA i : probe.streams[i].codec_type = type)

\* processor.py:183-187, the per-type index of the stream at position i
PerTypeIndex(probe, type, i) ==
    Cardinality({j \in 1..(i - 1) : probe.streams[j].codec_type = type})

\* a selection that follows the probe's declaration order instead: every audio
\* stream that is the first one of a configured language, as the probe lists them
collect_audio_streams_stream_order(probe, languages) ==
    LET audio == TypeIndices(probe, "audio")
        firsts == SelectSeq(audio, LAMBDA i :
                      /\ \E k \in 1..Len(languages) :
                            languages[k] = StreamLang(probe.streams[i])
                      /\ \A j \in 1..(i - 1) :
                            probe.streams[j].codec_type = "audio" =>
                                StreamLang(probe.streams[j]) #
                                    StreamLang(probe.streams[i]))
    IN  [n \in 1..Len(firsts) |->
            [stream |-> PerTypeIndex(probe, "audio", firsts[n]),
             channels |-> probe.streams[firsts[n]].channels,
             codec_name |-> probe.streams[firsts[n]].codec_name,
             lang |-> StreamLang(probe.streams[firsts[n]])]]

\* processor.py:177-211, collect_audio_streams: for each configured language,
\* in the configured order, the first audio stream tagged with it.  An entry
\* names its stream by the per-type index; lang records the tag the stream was
\* matched on, which the code's entry does not keep
RECURSIVE collect_audio_streams(_, _)
collect_audio_streams(probe, languages) ==
    IF languages = <<>> THEN <<>>
    ELSE LET lang == Head(languages)
             hits == SelectSeq(TypeIndices(probe, "audio"),
                               LAMBDA i : StreamLang(probe.streams[i]) = lang)
             rest == collect_audio_streams(probe, Tail(languages))
         IN  IF hits = <<>> THEN rest
             ELSE <<[stream |-> PerTypeIndex(probe, "audio", hits[1]),
                     channels |-> probe.streams[hits[1]].channels,
                     codec_name |-> probe.streams[hits[1]].codec_name,
                     lang |-> lang]>> \o rest

\* processor.py:213-235, collect_subtitle_streams: for each configured
\* language, every subtitle stream tagged with it (the inner loop has no break)
RECURSIVE collect_subtitle_streams(_, _)
collect_subtitle_streams(probe, languages) ==
    IF languages = <<>> THEN <<>>
    ELSE LET lang == Head(languages)
             hits == SelectSeq(TypeIndices(probe, "subtitle"),
                               LAMBDA i : StreamLang(probe.streams[i]) = lang)
         IN  [k \in 1..Len(hits) |->
                 [stream |-> PerTypeIndex(probe, "subtitle", hits[k]),
                  lang |-> lang]]
             \o collect_subtitle_streams(probe, Tail(languages))

\* processor.py:56, `rc_mode is not 'CQP' and rc_mode is not 'VBR'`: `is`
\* compares object identity, so equal strings count as the same object only
\* when the interpreter shares them (interned)
RcModeUnsupported(rc_mode, interned) ==
    ~(interned /\ rc_mode = Str("CQP")) /\ ~(interned /\ rc_mode = Str("VBR"))

\* processor.py:86-96, the value of c:a:<idx> for one selected audio stream
AudioCodecParam(info) ==
    LET desired_codec == IF info.channels > 2 THEN "ac3" ELSE "aac"
    IN  IF info.codec_name = desired_codec THEN "copy" ELSE desired_codec

\* 0 .. n-1, what range(n) and enumerate count through
Range(n) == 0..(n - 1)

\* processor.py:81-134, the parameters handed to ffmpeg.output.  Each family of
\* keys (c:a:<idx>, c:s:<idx>, metadata:s:a:<idx>, metadata:s:s:<idx>,
\* disposition:a:<idx>, disposition:s:<idx>) is a function of idx; c:v is the
\* codec name before its _vaapi ending
ffmpeg_params(audio, subs, vidconfig) ==
    [codec_v |-> vidconfig.video_codec.v,
     codec_a |-> [idx \in Range(Len(audio)) |-> AudioCodecParam(audio[idx + 1])],
     codec_s |-> [idx \in Range(Len(subs)) |-> "copy"],
     metadata_a |-> [idx \in Range(Len(vidconfig.language.v)) |->
                        vidconfig.language.v[idx + 1]],
     metadata_s |-> [idx \in Range(Len(vidconfig.subtitles.v)) |->
                        vidconfig.subtitles.v[idx + 1]],
     disposition_a |-> [idx \in Range(Len(audio)) |->
                           IF idx = 0 THEN "default" ELSE "0"],
     disposition_s |-> [idx \in Range(Len(subs)) |->
                           IF idx = 0 THEN "default" ELSE "0"]]

\* the parameters before anything is built
NoParams == ffmpeg_params(<<>>, <<>>, [video_codec |-> Str(""),
                                       language |-> List(<<>>),
                                       subtitles |-> List(<<>>)])

\* processor.py:67-139, from the audio selection to ffmpeg.run
BuildAndRun(input, probe, vidconfig) ==
    LET audio == collect_audio_streams(probe, vidconfig.language.v)
        subs == collect_subtitle_streams(probe, vidconfig.subtitles.v)
    IN  IF audio = <<>> THEN [out |-> Returns(NoneValue), runs |-> <<>>]
        ELSE [out |-> Returns(OutputPath(input.dir, input.stem,
                                         vidconfig.container.v[1])),
              runs |-> <<[audio |-> audio, subtitles |-> subs,
                          params |-> ffmpeg_params(audio, subs, vidconfig),
                          output |-> OutputPath(input.dir, input.stem,
                                                vidconfig.container.v[1])]>>]

\* processor.py:8-139, process(input_file, vidconfig); gives the outcome and
\* the ffmpeg.run invocations made
process(input, probe, vidconfig, interned) ==
    LET quality == GetAttr(vidconfig, "video_quality")
        rc_mode == GetAttr(vidconfig, "rc_mode")
    IN  IF vidconfig.container.t = "list"
        THEN [out |-> Raises("TypeError"), runs |-> <<>>]
        ELSE IF ~probe.ok THEN [out |-> Raises("ffmpeg.Error"), runs |-> <<>>]
        ELSE IF ~HasVideoStream(probe) THEN [out |-> Returns(NoneValue), runs |-> <<>>]
        ELSE IF quality.exc # "none" THEN [out |-> Raises(quality.exc), runs |-> <<>>]
        ELSE IF quality.val.t = "None"
        THEN BuildAndRun(input, probe, vidconfig)
        ELSE IF rc_mode.exc # "none" THEN [out |-> Raises(rc_mode.exc), runs |-> <<>>]
        ELSE IF RcModeUnsupported(rc_mode.val, interned)
        THEN [out |-> Returns(NoneValue), runs |-> <<>>]
        ELSE BuildAndRun(input, probe, vidconfig)

\* the call process(input_file, vidconfig) on the file and configuration at hand
Process ==
    /\ ~proc_call.called
    /\ \E interned \in BOOLEAN :
          LET r == process(proc_call.input, proc_call.probe, proc_call.vidconfig,
                           interned)
          IN  /\ proc_result' = r.out
              /\ ffmpeg_runs' = ffmpeg_runs \o r.runs
    /\ proc_call' = [proc_call EXCEPT !.called = TRUE]
    /\ UNCHANGED <<sel_call, sel_audio, sel_subtitles, sel_params>>
    /\ UNCHANGED <<cmd_call, cmd_result, cmd_files>>
    /\ UNCHANGED <<cfg_vars, scan_vars, compl_vars, transfer_vars>>

\* the call collect_audio_streams(probe, input_stream, vidconfig)
CollectAudio ==
    /\ ~sel_call.audio_done
    /\ sel_audio' = collect_audio_streams(sel_call.probe,
                                          sel_call.vidconfig.language.v)
    /\ sel_call' = [sel_call EXCEPT !.audio_done = TRUE]
    /\ UNCHANGED <<sel_subtitles, sel_params, proc_call, proc_result, ffmpeg_runs,
                   cmd_call, cmd_result, cmd_files>>
    /\ UNCHANGED <<cfg_vars, scan_vars, compl_vars, transfer_vars>>

\* the call collect_subtitle_streams(probe, input_stream, vidconfig)
CollectSubtitles ==
    /\ ~sel_call.subtitles_done
    /\ sel_subtitles' = collect_subtitle_streams(sel_call.probe,
                                                 sel_call.vidconfig.subtitles.v)
    /\ sel_call' = [sel_call EXCEPT !.subtitles_done = TRUE]
    /\ UNCHANGED <<sel_audio, sel_params, proc_call, proc_result, ffmpeg_runs,
                   cmd_call, cmd_result, cmd_files>>
    /\ UNCHANGED <<cfg_vars, scan_vars, compl_vars, transfer_vars>>

\* processor.py:69-134 on the two selections: with no audio stream selected
\* process returns at line 71 and builds nothing
BuildParameters ==
    /\ sel_call.audio_done
    /\ sel_call.subtitles_done
    /\ ~sel_call.params_done
    /\ sel_audio # <<>>
    /\ sel_params' = ffmpeg_params(sel_audio, sel_subtitles, sel_call.vidconfig)
    /\ sel_call' = [sel_call EXCEPT !.params_done = TRUE]
    /\ UNCHANGED <<sel_audio, sel_subtitles, proc_call, proc_result, ffmpeg_runs,
                   cmd_call, cmd_result, cmd_files>>
    /\ UNCHANGED <<cfg_vars, scan_vars, compl_vars, transfer_vars>>

(***************************************************************************)
(* cli.py: the process command and the search command                      *)
(***************************************************************************)
\* most files the tree holds that the search command is run on
MaxSearchFiles == 2

\* cli.py:56 and 104, find_videos(os.path.abspath(path), count, filter_fn) on
\* a path that is one file of the tree (kind "file") or the tree's top
FoundByCommand(kind, path, walk, count, filter_fn) ==
    IF kind = "file" THEN FindVideosOfFile(path).out
    ELSE WalkLoop(walk, 1, <<>>, count, filter_fn).out

\* cli.py:107-124, the loop body of the process command for one found file.
\* files says what lies at the input path, at <parent>/<backup_dir>/<name> and
\* at the output path: "absent", the "source", or what ffmpeg wrote
\* ("transcoded").  export_probe(None) hands None to subprocess.run: TypeError
ProcessOneFile(files, file, probe, vidconfig, compare, interned) ==
    LET r == process([dir |-> file.root, stem |-> file.file], probe, vidconfig,
                     interned)
        after_run == IF r.runs # <<>> THEN [files EXCEPT !.output = "transcoded"]
                     ELSE files
        moved == [after_run EXCEPT !.backup = after_run.input, !.input = "absent"]
    IN  IF r.out.exc # "none"
        THEN [out |-> Raises(r.out.exc), files |-> after_run, runs |-> r.runs]
        ELSE IF compare
        THEN [out |-> IF r.out.val.is_none THEN Raises("TypeError")
                      ELSE Returns(<<file>>),
              files |-> after_run, runs |-> r.runs]
        ELSE IF r.out.val.is_none
        THEN [out |-> Raises("AttributeError"), files |-> moved, runs |-> r.runs]
        ELSE [out |-> Returns(<<file>>),
              files |-> [moved EXCEPT !.input = moved.output, !.output = "absent"],
              runs |-> r.runs]

\* cli.py:98-124, the process command on a path that is one file, or a
\* directory holding that one file
FullProcess ==
    /\ ~cmd_call.called
    /\ \E interned \in BOOLEAN :
          LET found == FoundByCommand(cmd_call.kind, cmd_call.file,
                                      <<cmd_call.file>>, cmd_call.count, "None")
              one == ProcessOneFile(cmd_files, cmd_call.file, cmd_call.probe,
                                    cmd_call.vidconfig, cmd_call.compare, interned)
          IN  IF found.exc # "none"
              THEN /\ cmd_result' = Raises(found.exc)
                   /\ UNCHANGED <<cmd_files, ffmpeg_runs>>
              ELSE IF found.val = <<>>
              THEN /\ cmd_result' = Returns(<<>>)
                   /\ UNCHANGED <<cmd_files, ffmpeg_runs>>
              ELSE /\ cmd_result' = one.out
                   /\ cmd_files' = one.files
                   /\ ffmpeg_runs' = ffmpeg_runs \o one.runs
    /\ cmd_call' = [cmd_call EXCEPT !.called = TRUE]
    /\ UNCHANGED <<proc_call, proc_result, sel_call, sel_audio, sel_subtitles,
                   sel_params>>
    /\ UNCHANGED <<cfg_vars, scan_vars, compl_vars, transfer_vars>>

\* cli.py:63-69 (the same loop as the scan command's, cli.py:29-35): the
\* report entries for the found files from position i on; verbose_compliance[prop]
\* is a KeyError when the explanation map lacks the key
RECURSIVE ReportLines(_, _, _, _)
ReportLines(found, i, probe_of, vidconfig) ==
    IF i > Len(found) THEN Returns(<<>>)
    ELSE LET c == get_video_compliance(probe_of[found[i].file], vidconfig)
         IN  IF c.exc # "none" THEN Raises(c.exc)
             ELSE IF \E prop \in DOMAIN c.val.results :
                        prop \notin DOMAIN c.val.verbose
             THEN Raises("KeyError")
             ELSE LET rest == ReportLines(found, i + 1, probe_of, vidconfig)
                  IN  IF rest.exc # "none" THEN rest
                      ELSE Returns(<<[file |-> found[i],
                                      props |-> DOMAIN c.val.results]>>
                                   \o rest.val)

\* the report of a command that found nothing and saved nothing
NoReport == [saved |-> FALSE, lines |-> <<>>]

\* cli.py:53-75, the search command: --only "" accepts every file, otherwise
\* the filter is x.endswith(only)
search(kind, path, walk, probe_of, vidconfig, until, only) ==
    LET max_count == IF until > 0 THEN until ELSE 20
        found == FoundByCommand(kind, path, walk, max_count,
                                IF only = "" THEN "None" ELSE "only_mp4")
        lines == ReportLines(found.val, 1, probe_of, vidconfig)
    IN  IF found.exc # "none" THEN Raises(found.exc)
        ELSE IF found.val = <<>> THEN Returns(NoReport)
        ELSE IF lines.exc # "none" THEN Raises(lines.exc)
        ELSE Returns([saved |-> TRUE, lines |-> lines.val])

Search ==
    /\ ~search_call.called
    /\ search_result' = search(search_call.kind, search_call.path,
                               search_call.walk, search_call.probe_of,
                               search_call.vidconfig, search_call.until,
                               search_call.only)
    /\ search_call' = [search_call EXCEPT !.called = TRUE]
    /\ UNCHANGED <<compl_call, compl_result>>
    /\ UNCHANGED <<cfg_vars, scan_vars, proc_vars, transfer_vars>>

\* the probe outcomes of the files the search command reports on
SearchProbes ==
    {[ok |-> FALSE, streams |-> <<>>, format_names |-> {}],
     [ok |-> TRUE,
      streams |-> <<[codec_type |-> "video", codec_name |-> "hevc",
                     language |-> "", channels |-> 0],
                    [codec_type |-> "audio", codec_name |-> "aac",
                     language |-> "eng", channels |-> 2]>>,
      format_names |-> {"matroska", "webm"}]}

\* the calls of the search command: on the top of a tree of at most
\* MaxSearchFiles files, or on one file of it
SearchCalls ==
    UNION {{[called |-> FALSE, kind |-> IF p.file = "" THEN "dir" ELSE "file",
             path |-> p, walk |-> w, probe_of |-> po, vidconfig |-> VidConfig,
             until |-> u, only |-> o] :
               p \in {[root |-> "top", file |-> ""]}
                       \cup {w[i] : i \in 1..Len(w)},
               po \in [ScanNames -> SearchProbes],
               u \in {0, 1}, o \in {"", ".mp4"}} :
           w \in {x \in Walks : Len(x) <= MaxSearchFiles}}

(***************************************************************************)
(* transfer.py                                                             *)
(*                                                                         *)
(* A path is the sequence of its components.  fs maps every existing path  *)
(* to "<dir>" or to the data of the file there; the data of an archive     *)
(* names its contents.                                                     *)
(***************************************************************************)
\* most files the source tree holds when the transfer starts
MaxSrcFiles == 2

\* nested transfer_media_files calls the interpreter allows before it raises
\* RecursionError (sys.getrecursionlimit(), scaled down)
RecursionLimit == 4

SrcDir == <<"src">>

DestDir == <<"dest">>

\* transfer.py:4
MEDIA_EXTENSIONS ==
    {".mp4", ".mp3", ".avi", ".mov", ".jpg", ".png", ".jpeg", ".mkv", ".flac", ".wav"}

\* transfer.py:5
RAR_EXTENSION == ".rar"

\* os.path.splitext on the file names of the model
SplitExt(name) ==
    CASE name = "a.mp4" -> [stem |-> "a", ext |-> ".mp4"]
      [] name = "b.mp4" -> [stem |-> "b", ext |-> ".mp4"]
      [] name = "C.MP4" -> [stem |-> "C", ext |-> ".MP4"]
      [] name = "n.txt" -> [stem |-> "n", ext |-> ".txt"]
      [] name = "x.rar" -> [stem |-> "x", ext |-> ".rar"]
      [] name = "y.rar" -> [stem |-> "y", ext |-> ".rar"]
      [] name = "a.mp4.rar" -> [stem |-> "a.mp4", ext |-> ".rar"]
      [] OTHER -> [stem |-> name, ext |-> ""]

\* str.lower() on an extension
LowerExt(ext) == IF ext = ".MP4" THEN ".mp4" ELSE ext

\* transfer.py:7-11
is_media_file(file_name) == LowerExt(SplitExt(file_name).ext) \in MEDIA_EXTENSIONS

\* transfer.py:13-15
is_rar_file(file_name) == LowerExt(SplitExt(file_name).ext) = RAR_EXTENSION

\* what the archives of the model hold: files at the archive's top (rel = <<>>)
\* or in a subdirectory; "bad" is a file rarfile cannot open
ArchiveContents(data) ==
    CASE data = "ok1" ->
            {[rel |-> <<>>, name |-> "b.mp4", data |-> "mb"],
             [rel |-> <<"zz">>, name |-> "C.MP4", data |-> "mc"],
             [rel |-> <<>>, name |-> "n.txt", data |-> "t"]}
      [] data = "nest" -> {[rel |-> <<>>, name |-> "y.rar", data |-> "ok1"]}
      [] data = "self" ->
            {[rel |-> <<>>, name |-> "x.rar", data |-> "ok1"],
             [rel |-> <<>>, name |-> "b.mp4", data |-> "mb"]}
      [] OTHER -> {}

ArchiveOpens(data) == data \in {"ok1", "nest", "self"}

IsDir(f, p) == p \in DOMAIN f /\ f[p] = "<dir>"

IsFile(f, p) == p \in DOMAIN f /\ f[p] # "<dir>"

Parent(p) == SubSeq(p, 1, Len(p) - 1)

Basename(p) == p[Len(p)]

\* os.scandir: the names of the files / of the subdirectories of dir
FilesIn(f, dir) ==
    {Basename(p) : p \in {q \in DOMAIN f : Len(q) = Len(dir) + 1
                              /\ Parent(q) = dir /\ f[q] # "<dir>"}}

DirsIn(f, dir) ==
    {p \in DOMAIN f : Len(p) = Len(dir) + 1 /\ Parent(p) = dir /\ f[p] = "<dir>"}

Remove(f, p) == [q \in DOMAIN f \ {p} |-> f[q]]

Put(f, p, data) == [q \in DOMAIN f \cup {p} |-> IF q = p THEN data ELSE f[q]]

\* shutil.move(src_file, dest_file) of a file: into dest_file when that is a
\* directory (shutil.Error if the name is taken there), else onto dest_file
shutil_move(f, src_file, dest_file) ==
    LET real_dst == IF IsDir(f, dest_file)
                    THEN Append(dest_file, Basename(src_file))
                    ELSE dest_file
    IN  IF IsDir(f, dest_file) /\ real_dst \in DOMAIN f THEN Raises("shutil.Error")
        ELSE IF ~IsFile(f, src_file) THEN Raises("FileNotFoundError")
        ELSE Returns(Put(Remove(f, src_file), real_dst, f[src_file]))

\* RarFile.extractall(extract_to): the directories and files it writes
RECURSIVE WriteEntries(_, _, _)
WriteEntries(f, extract_to, entries) ==
    IF entries = {} THEN f
    ELSE LET e == CHOOSE x \in entries : TRUE
             dir == extract_to \o e.rel
             withdirs == Put(Put(f, extract_to, "<dir>"), dir, "<dir>")
         IN  WriteEntries(Put(withdirs, Append(dir, e.name), e.data),
                          extract_to, entries \ {e})

\* transfer.py:17-24, extract_rar_file: a rarfile.Error is printed and
\* swallowed.  When extract_to is taken by a file the extraction cannot write:
\* rarfile reports that as a rarfile.Error or lets the OSError through,
\* depending on how it extracts (as_rar_error).
extract_rar_file(f, rar_path, extract_to, as_rar_error) ==
    IF ~IsFile(f, rar_path) THEN Raises("FileNotFoundError")
    ELSE IF ~ArchiveOpens(f[rar_path]) THEN Returns(f)
    ELSE IF IsFile(f, extract_to)
    THEN (IF as_rar_error THEN Returns(f) ELSE Raises("OSError"))
    ELSE Returns(WriteEntries(f, extract_to, ArchiveContents(f[rar_path])))

\* transfer.py:26-30, a transfer_media_files call as it enters its os.walk:
\* the walk lists top first, if top is a directory
NewCall(f, src_dir) ==
    [top |-> src_dir,
     todo |-> IF IsDir(f, src_dir) THEN {src_dir} ELSE {},
     root |-> src_dir,
     files |-> {}]

Frame == t_stack[Len(t_stack)]

ReplaceFrame(fr) == [t_stack EXCEPT ![Len(t_stack)] = fr]

\* an exception nobody catches ends the transfer
Abort ==
    /\ t_status' = "raised"
    /\ t_stack' = <<>>

OthersIdleUnchanged == UNCHANGED <<cfg_vars, scan_vars, compl_vars, proc_vars>>

\* cli.py:146-151, the transfer command calls transfer_media_files(src, dest)
TransferStart ==
    /\ t_status = "idle"
    /\ t_status' = "running"
    /\ t_stack' = <<NewCall(fs, SrcDir)>>
    /\ UNCHANGED <<fs, fs_initial>>
    /\ OthersIdleUnchanged

\* transfer.py:31, os.walk moves on to the next directory: top first, then
\* the subdirectories it listed, each listed when it is reached
WalkNextDir ==
    /\ t_status = "running"
    /\ Frame.files = {}
    /\ \E d \in Frame.todo :
          t_stack' = ReplaceFrame(
              [Frame EXCEPT !.root = d,
                            !.files = FilesIn(fs, d),
                            !.todo = (Frame.todo \ {d}) \cup DirsIn(fs, d)])
    /\ UNCHANGED <<fs, fs_initial, t_status>>
    /\ OthersIdleUnchanged

\* transfer.py:32-38, one file of the listing is a media file: move it
MoveMedia ==
    /\ t_status = "running"
    /\ \E file \in Frame.files :
          /\ is_media_file(file)
          /\ LET moved == shutil_move(fs, Append(Frame.root, file),
                                      Append(DestDir, file))
             IN  IF moved.exc # "none"
                 THEN Abort /\ UNCHANGED fs
                 ELSE /\ fs' = moved.val
                      /\ t_stack' = ReplaceFrame(
                            [Frame EXCEPT !.files = Frame.files \ {file}])
                      /\ UNCHANGED t_status
    /\ UNCHANGED fs_initial
    /\ OthersIdleUnchanged

\* transfer.py:40-45, one file of the listing is an archive: extract it into
\* dest/<stem> and call transfer_media_files on that directory
ExtractRar ==
    /\ t_status = "running"
    /\ \E file \in Frame.files, as_rar_error \in BOOLEAN :
          /\ ~is_media_file(file)
          /\ is_rar_file(file)
          /\ LET extract_to == Append(DestDir, SplitExt(file).stem)
                 extracted == extract_rar_file(fs, Append(Frame.root, file),
                                               extract_to, as_rar_error)
             IN  IF extracted.exc # "none"
                 THEN Abort /\ UNCHANGED fs
                 ELSE /\ fs' = extracted.val
                      /\ IF Len(t_stack) >= RecursionLimit
                         THEN Abort
                         ELSE /\ t_stack' =
                                    Append(ReplaceFrame(
                                               [Frame EXCEPT !.files =
                                                    Frame.files \ {file}]),
                                           NewCall(extracted.val, extract_to))
                              /\ UNCHANGED t_status
    /\ UNCHANGED fs_initial
    /\ OthersIdleUnchanged

\* transfer.py:32-40, a file that is neither is left where it is
SkipFile ==
    /\ t_status = "running"
    /\ \E file \in Frame.files :
          /\ ~is_media_file(file)
          /\ ~is_rar_file(file)
          /\ t_stack' = ReplaceFrame([Frame EXCEPT !.files = Frame.files \ {file}])
    /\ UNCHANGED <<fs, fs_initial, t_status>>
    /\ OthersIdleUnchanged

\* transfer.py:31, the walk is exhausted: the call returns to its caller
ReturnFromCall ==
    /\ t_status = "running"
    /\ Frame.files = {}
    /\ Frame.todo = {}
    /\ t_stack' = SubSeq(t_stack, 1, Len(t_stack) - 1)
    /\ t_status' = IF Len(t_stack) = 1 THEN "done" ELSE "running"
    /\ UNCHANGED <<fs, fs_initial>>
    /\ OthersIdleUnchanged

\* the files the source tree may hold when the transfer starts
SrcEntries ==
    {[path |-> d \o <<nd[1]>>, data |-> nd[2]] :
        d \in {SrcDir, SrcDir \o <<"sub">>},
        nd \in {<<"a.mp4", "m1">>, <<"a.mp4", "m2">>, <<"n.txt", "t">>,
                <<"x.rar", "ok1">>, <<"x.rar", "nest">>, <<"x.rar", "self">>,
                <<"x.rar", "bad">>, <<"a.mp4.rar", "ok1">>}}

\* a source tree: at most MaxSrcFiles files, no path twice; dest starts empty
SrcTrees ==
    {E \in SUBSET SrcEntries :
        /\ Cardinality(E) <= MaxSrcFiles
        /\ \A e1, e2 \in E : e1.path = e2.path => e1 = e2}

TreeFs(E) ==
    [p \in {SrcDir, SrcDir \o <<"sub">>, DestDir} \cup {e.path : e \in E} |->
        IF p \in {SrcDir, SrcDir \o <<"sub">>, DestDir} THEN "<dir>"
        ELSE (CHOOSE e \in E : e.path = p).data]

(***************************************************************************)
(* Specifications: one per component, the other components idle            *)
(***************************************************************************)
\* the scanner's variables before any find_videos call, on an empty directory
ScanIdle ==
    /\ scan_walk = <<>>
    /\ scan_call = [kind |-> "none", path |-> [root |-> "", file |-> ""],
                    max_count |-> -1, filter_fn |-> "None"]
    /\ scan_result = Returns(<<>>)
    /\ scan_examined = 0

\* the search command's variables before it is run
SearchIdle ==
    /\ search_call = [called |-> FALSE, kind |-> "dir",
                      path |-> [root |-> "top", file |-> ""], walk |-> <<>>,
                      probe_of |-> [n \in ScanNames |->
                                      [ok |-> FALSE, streams |-> <<>>,
                                       format_names |-> {}]],
                      vidconfig |-> VidConfig, until |-> 0, only |-> ""]
    /\ search_result = Returns(NoReport)

\* the selection functions' and the process command's variables before any call
SelectionIdle ==
    /\ sel_call = [audio_done |-> FALSE, subtitles_done |-> FALSE,
                   params_done |-> FALSE,
                   probe |-> [ok |-> TRUE, streams |-> <<>>, format_names |-> {}],
                   vidconfig |-> VidConfig]
    /\ sel_audio = <<>>
    /\ sel_subtitles = <<>>
    /\ sel_params = NoParams

CommandIdle ==
    /\ cmd_call = [called |-> FALSE, kind |-> "file",
                   file |-> [root |-> "top", file |-> "d.txt"],
                   count |-> -1,
                   probe |-> [ok |-> FALSE, streams |-> <<>>, format_names |-> {}],
                   vidconfig |-> VidConfig, compare |-> FALSE]
    /\ cmd_result = Returns(<<>>)
    /\ cmd_files = [input |-> "source", backup |-> "absent", output |-> "absent"]

\* the compliance checker's variables before any call
ComplIdle ==
    /\ compl_call = [called |-> FALSE,
                     probe |-> [ok |-> FALSE, streams |-> <<>>, format_names |-> {}],
                     vidconfig |-> VidConfig]
    /\ compl_result = Returns([results |-> [k \in {} |-> FALSE],
                               verbose |-> Verbose({})])
    /\ SearchIdle

\* the processor's variables before any call
ProcIdle ==
    /\ proc_call = [called |-> FALSE, input |-> [dir |-> "", stem |-> ""],
                    probe |-> [ok |-> FALSE, streams |-> <<>>, format_names |-> {}],
                    vidconfig |-> VidConfig]
    /\ proc_result = Returns(NoneValue)
    /\ ffmpeg_runs = <<>>
    /\ SelectionIdle
    /\ CommandIdle

\* the transfer's variables before it starts, on empty directories
TransferIdle ==
    /\ fs = TreeFs({})
    /\ fs_initial = TreeFs({})
    /\ t_stack = <<>>
    /\ t_status = "idle"

\* the resolver's variables before any resolution, with no override file
ConfigIdle ==
    /\ cfg_files = [i \in 1..MaxDepth |-> [kind |-> "nofile", d |-> DictOf({}, Str(""))]]
    /\ cfg_target = 0
    /\ cfg_previous = 0
    /\ env_config = Returns(VidConfig)

InitConfig ==
    /\ cfg_files \in [1..MaxDepth -> OverrideDocs]
    /\ cfg_target = 0
    /\ cfg_previous = 0
    /\ env_config = Returns(VidConfig)
    /\ ScanIdle
    /\ ComplIdle
    /\ ProcIdle
    /\ TransferIdle

NextConfig == \E path \in 1..MaxDepth : get_environment_config(path)

SpecConfig == InitConfig /\ [][NextConfig]_vars

InitScan ==
    /\ scan_walk \in Walks
    /\ scan_call = [kind |-> "none", path |-> [root |-> "", file |-> ""],
                    max_count |-> -1, filter_fn |-> "None"]
    /\ scan_result = Returns(<<>>)
    /\ scan_examined = 0
    /\ ConfigIdle
    /\ ComplIdle
    /\ ProcIdle
    /\ TransferIdle

NextScan ==
    \E kind \in {"dir", "file"}, max_count \in -1..MaxCount, filter_fn \in FilterFns :
        \E path \in {[root |-> "top", file |-> ""]}
                      \cup {scan_walk[i] : i \in 1..Len(scan_walk)} :
            find_videos(kind, path, max_count, filter_fn)

SpecScan == InitScan /\ [][NextScan]_vars

InitCompliance ==
    /\ compl_call \in [called : {FALSE}, probe : Probes, vidconfig : ReachableConfigs]
    /\ compl_result = Returns([results |-> [k \in {} |-> FALSE],
                               verbose |-> Verbose({})])
    /\ SearchIdle
    /\ ConfigIdle
    /\ ScanIdle
    /\ ProcIdle
    /\ TransferIdle

NextCompliance == GetVideoCompliance

SpecCompliance == InitCompliance /\ [][NextCompliance]_vars

InitProcess ==
    /\ proc_call \in [called : {FALSE},
                       input : {[dir |-> "movies", stem |-> "film"]},
                       probe : Probes, vidconfig : ReachableConfigs]
    /\ proc_result = Returns(NoneValue)
    /\ ffmpeg_runs = <<>>
    /\ SelectionIdle
    /\ CommandIdle
    /\ ConfigIdle
    /\ ScanIdle
    /\ ComplIdle
    /\ TransferIdle

NextProcess == Process

SpecProcess == InitProcess /\ [][NextProcess]_vars

\* the selection functions applied to a probe and a configuration
InitCollect ==
    /\ sel_call \in [audio_done : {FALSE}, subtitles_done : {FALSE},
                      params_done : {FALSE},
                      probe : {p \in Probes : p.ok}, vidconfig : ReachableConfigs]
    /\ sel_audio = <<>>
    /\ sel_subtitles = <<>>
    /\ sel_params = NoParams
    /\ proc_call = [called |-> FALSE, input |-> [dir |-> "", stem |-> ""],
                    probe |-> [ok |-> FALSE, streams |-> <<>>, format_names |-> {}],
                    vidconfig |-> VidConfig]
    /\ proc_result = Returns(NoneValue)
    /\ ffmpeg_runs = <<>>
    /\ CommandIdle
    /\ ConfigIdle
    /\ ScanIdle
    /\ ComplIdle
    /\ TransferIdle

NextCollect ==
    \/ CollectAudio
    \/ CollectSubtitles
    \/ BuildParameters

SpecCollect == InitCollect /\ [][NextCollect]_vars

\* the process command on one file
InitFullProcess ==
    /\ cmd_call \in [called : {FALSE}, kind : {"file", "dir"},
                      file : {[root |-> "top", file |-> n] : n \in ScanNames},
                      count : {-1}, probe : Probes, vidconfig : ReachableConfigs,
                      compare : BOOLEAN]
    /\ cmd_result = Returns(<<>>)
    /\ cmd_files = [input |-> "source", backup |-> "absent", output |-> "absent"]
    /\ proc_call = [called |-> FALSE, input |-> [dir |-> "", stem |-> ""],
                    probe |-> [ok |-> FALSE, streams |-> <<>>, format_names |-> {}],
                    vidconfig |-> VidConfig]
    /\ proc_result = Returns(NoneValue)
    /\ ffmpeg_runs = <<>>
    /\ SelectionIdle
    /\ ConfigIdle
    /\ ScanIdle
    /\ ComplIdle
    /\ TransferIdle

NextFullProcess == FullProcess

SpecFullProcess == InitFullProcess /\ [][NextFullProcess]_vars

\* the search command on a tree
InitSearch ==
    /\ search_call \in SearchCalls
    /\ search_result = Returns(NoReport)
    /\ compl_call = [called |-> FALSE,
                     probe |-> [ok |-> FALSE, streams |-> <<>>, format_names |-> {}],
                     vidconfig |-> VidConfig]
    /\ compl_result = Returns([results |-> [k \in {} |-> FALSE],
                               verbose |-> Verbose({})])
    /\ ConfigIdle
    /\ ScanIdle
    /\ ProcIdle
    /\ TransferIdle

NextSearch == Search

SpecSearch == InitSearch /\ [][NextSearch]_vars

InitTransfer ==
    /\ \E E \in SrcTrees : fs = TreeFs(E) /\ fs_initial = TreeFs(E)
    /\ t_stack = <<>>
    /\ t_status = "idle"
    /\ ConfigIdle
    /\ ScanIdle
    /\ ComplIdle
    /\ ProcIdle

NextTransfer ==
    \/ TransferStart
    \/ WalkNextDir
    \/ MoveMedia
    \/ ExtractRar
    \/ SkipFile
    \/ ReturnFromCall

SpecTransfer == InitTransfer /\ [][NextTransfer]_vars

(***************************************************************************)
(* Claims about config.py                                                  *)
(***************************************************************************)
RecognizedKeys == DOMAIN VidConfig

\* the override files of the resolved chain that parse to a mapping with key k
Holders(k) ==
    {i \in 1..cfg_target : cfg_files[i].kind = "dict" /\ k \in DOMAIN cfg_files[i].d}

Deepest(S) == CHOOSE i \in S : \A j \in S : j <= i

ConfigReturned == cfg_target # 0 /\ env_config.exc = "none"

\* C1 as stated: for any two override files of the chain, an ancestor's and a
\* descendant's, a recognized key present in both resolves to exactly the
\* descendant's value, and a key present only in the ancestor of the two keeps
\* exactly the ancestor's value.
C1_DescendantValueWins ==
    ConfigReturned =>
        \A k \in RecognizedKeys : \A i, j \in 1..cfg_target :
            (i < j /\ i \in Holders(k) /\ cfg_files[j].kind # "nofile") =>
                IF j \in Holders(k)
                THEN env_config.val[k] = cfg_files[j].d[k]
                ELSE env_config.val[k] = cfg_files[i].d[k]

\* the value x of an override file as update_from_dict may store it in a
\* field: unchanged, as the one-element list [x] when x is no list, or as
\* Path(x) when x is a str
StoredForms(x) ==
    {x} \cup (IF x.t # "list" THEN {List(x.v)} ELSE {})
        \cup (IF x.t = "str" THEN {PathV(x.v[1])} ELSE {})

\* C1 (amended): overrides apply root to leaf, so a recognized key held by
\* override files of the chain resolves to the value of the deepest file that
\* holds it, stored as given, or wrapped in a one-element list when the field
\* holds a list and the value is no list, or converted to a Path when the
\* field holds a Path.
C1_DeepestOverrideWins ==
    ConfigReturned =>
        \A k \in RecognizedKeys :
            Holders(k) # {} =>
                LET x == cfg_files[Deepest(Holders(k))].d[k]
                    r == env_config.val[k]
                IN  /\ r \in StoredForms(x)
                    /\ (r # x) => (r.t \in {"list", "Path"} /\ r.t # x.t)

\* C1 witness: a key held by an ancestor's and a descendant's file with
\* different values, resolved to the descendant's
C1_Witness ==
    /\ ConfigReturned
    /\ \E k \in RecognizedKeys : \E i, j \in Holders(k) :
          /\ i < j
          /\ j = Deepest(Holders(k))
          /\ cfg_files[i].d[k] # cfg_files[j].d[k]
          /\ env_config.val[k] = cfg_files[j].d[k]
          /\ env_config.val[k] # VidConfig[k]

NoOverrideInChain(path) == \A i \in 1..path : cfg_files[i].kind = "nofile"

\* C2: a path with no override file in its root-to-target chain resolves to
\* the hardcoded defaults in every field, also when an earlier resolution of
\* another path applied overrides.
C2_NoOverrideGivesDefaults ==
    (cfg_target # 0 /\ NoOverrideInChain(cfg_target)) =>
        /\ env_config.exc = "none"
        /\ env_config.val.container = Str("mkv")
        /\ env_config.val.video_codec = Str("hevc")
        /\ env_config.val.audio_codec = Str("aac")
        /\ env_config.val.language = List(<<"eng", "spa", "esp">>)
        /\ env_config.val.subtitles = List(<<"eng", "spa", "esp">>)
        /\ env_config.val.backup_dir = PathV("backup")
        /\ DOMAIN env_config.val =
              {"container", "video_codec", "audio_codec", "language",
               "subtitles", "backup_dir"}

\* C2 witness: a path without overrides resolved right after a deeper path
\* whose chain holds an override of a recognized key
C2_Witness ==
    /\ cfg_target # 0
    /\ NoOverrideInChain(cfg_target)
    /\ cfg_previous > cfg_target
    /\ \E i \in 1..cfg_previous : \E k \in RecognizedKeys :
          cfg_files[i].kind = "dict" /\ k \in DOMAIN cfg_files[i].d
    /\ env_config = Returns(VidConfig)

(***************************************************************************)
(* Claims about scanner.py: get_video_compliance                           *)
(***************************************************************************)
FourProperties == {"video_codec", "audio_codec", "subtitles", "container"}

\* every field of the configuration holds a value of the type VidConfig
\* declares for it
TypedAsDeclared(vidconfig) ==
    /\ vidconfig.container.t = "str"
    /\ vidconfig.video_codec.t = "str"
    /\ vidconfig.audio_codec.t = "str"
    /\ vidconfig.language.t = "list"
    /\ vidconfig.subtitles.t = "list"
    /\ vidconfig.backup_dir.t = "Path"

ProbedOk ==
    /\ compl_call.called
    /\ compl_call.probe.ok
    /\ TypedAsDeclared(compl_call.vidconfig)

ComplianceEntry(k) ==
    /\ compl_result.exc = "none"
    /\ k \in DOMAIN compl_result.val.results

\* C3: for every successfully probed file and every configuration, the
\* result of get_video_compliance holds an `overall` entry, which is true if
\* and only if all four of video_codec, audio_codec, subtitles and container
\* are true.
C3_OverallIffAllFour ==
    ProbedOk =>
        /\ ComplianceEntry("overall")
        /\ \A k \in FourProperties : ComplianceEntry(k)
        /\ compl_result.val.results["overall"]
              <=> \A k \in FourProperties : compl_result.val.results[k]

\* C4: for every observed audio codec set and every configuration, the
\* audio_codec entry is true if the configured stereo codec or the configured
\* surround codec is among the observed audio codecs, and false if neither is.
C4_AudioEitherCodec ==
    ProbedOk =>
        /\ ComplianceEntry("audio_codec")
        /\ HasAttr(compl_call.vidconfig, "audio_codec_stereo")
        /\ HasAttr(compl_call.vidconfig, "audio_codec_surround")
        /\ compl_result.val.results["audio_codec"]
              <=> \/ compl_call.vidconfig["audio_codec_stereo"].v[1]
                        \in audio_codecs(compl_call.probe)
                  \/ compl_call.vidconfig["audio_codec_surround"].v[1]
                        \in audio_codecs(compl_call.probe)

ConfiguredSubtitles ==
    {compl_call.vidconfig.subtitles.v[i] :
        i \in 1..Len(compl_call.vidconfig.subtitles.v)}

ObservedSubtitles == subtitle_languages(compl_call.probe)

\* C5: the subtitles entry is false whenever the observed subtitle languages
\* are a strict superset of the configured ones and whenever a configured
\* language is missing; it is true only when every configured language is
\* observed and the observed count does not exceed the configured count.
C5_SubtitleRule ==
    ProbedOk =>
        /\ ComplianceEntry("subtitles")
        /\ (ConfiguredSubtitles \subseteq ObservedSubtitles
              /\ ConfiguredSubtitles # ObservedSubtitles)
              => ~compl_result.val.results["subtitles"]
        /\ ~(ConfiguredSubtitles \subseteq ObservedSubtitles)
              => ~compl_result.val.results["subtitles"]
        /\ compl_result.val.results["subtitles"]
              => /\ ConfiguredSubtitles \subseteq ObservedSubtitles
                 /\ Cardinality(ObservedSubtitles)
                      <= Len(compl_call.vidconfig.subtitles.v)

(***************************************************************************)
(* Claims about scanner.py: find_videos                                    *)
(***************************************************************************)
\* the video files of the walk that pass the call's filter, in walk order
MatchingFiles ==
    SelectSeq(scan_walk,
              LAMBDA e : /\ is_video_file_endswith(StrName(e.file)).val
                         /\ PassesFilter(scan_call.filter_fn, e))

MinOf(a, b) == IF a <= b THEN a ELSE b

ExpectedCount ==
    IF scan_call.max_count > 0
    THEN MinOf(scan_call.max_count, Len(MatchingFiles))
    ELSE Len(MatchingFiles)

\* the position in the walk of the file that fills the cap, if one does
CapPosition ==
    IF scan_call.max_count > 0 /\ Len(MatchingFiles) >= scan_call.max_count
    THEN CHOOSE i \in 1..Len(scan_walk) :
            /\ scan_walk[i] = MatchingFiles[scan_call.max_count]
    ELSE Len(scan_walk)

\* C6: find_videos on a directory returns exactly min(cap, matching video
\* files) paths for a positive cap and all of them otherwise, as a prefix of
\* the matching files in traversal order, and examines no file once the cap
\* is reached.
C6_CappedPrefix ==
    scan_call.kind = "dir" =>
        /\ scan_result.exc = "none"
        /\ scan_result.val = SubSeq(MatchingFiles, 1, ExpectedCount)
        /\ scan_examined <= CapPosition

\* C7: find_videos on a path that is a file returns the one-element list of
\* that path if the file's extension, lower-cased, is in VIDEO_EXTENSIONS and
\* the empty list otherwise.
C7_SingleFileByAllowList ==
    scan_call.kind = "file" =>
        /\ scan_result.exc = "none"
        /\ scan_result.val =
              IF Lower(Suffix(scan_call.path.file)) \in VIDEO_EXTENSIONS
              THEN <<scan_call.path>> ELSE <<>>

(***************************************************************************)
(* Claims about processor.py                                               *)
(***************************************************************************)
ConfiguredLanguages ==
    {proc_call.vidconfig.language.v[i] : i \in 1..Len(proc_call.vidconfig.language.v)}

NoAudioMatch ==
    \A st \in StreamsOfType(proc_call.probe, "audio") :
        StreamLang(st) \notin ConfiguredLanguages

UnsupportedRcMode ==
    /\ HasAttr(proc_call.vidconfig, "rc_mode")
    /\ proc_call.vidconfig["rc_mode"] \notin {Str("CQP"), Str("VBR")}

\* C10: on a probed input, process returns None without running the
\* transcoder whenever there is no video stream, or no configured audio
\* language matches an audio stream, or the rate-control mode is unsupported;
\* in every other case it runs the transcoder exactly once and returns the
\* output path in the input's directory.
C10_NullOrOneRun ==
    (proc_call.called /\ proc_call.probe.ok
        /\ TypedAsDeclared(proc_call.vidconfig)) =>
        IF ~HasVideoStream(proc_call.probe) \/ NoAudioMatch \/ UnsupportedRcMode
        THEN proc_result = Returns(NoneValue) /\ ffmpeg_runs = <<>>
        ELSE /\ Len(ffmpeg_runs) = 1
             /\ proc_result.exc = "none"
             /\ ~proc_result.val.is_none
             /\ proc_result.val.dir = proc_call.input.dir

(***************************************************************************)
(* Claims about transfer.py                                                *)
(***************************************************************************)
UnderSrc(p) == Len(p) > 1 /\ p[1] = SrcDir[1]

\* the recognized media files that were under src when the transfer started
InitialSrcMedia ==
    {p \in DOMAIN fs_initial :
        UnderSrc(p) /\ IsFile(fs_initial, p) /\ is_media_file(Basename(p))}

\* C8: after transfer_media_files(src, dest) completes, every recognized
\* media file that was under src is gone from src, and a file with its base
\* name lies directly in dest, holding the data of one of the moved files of
\* that name (a later one overwrites an earlier one without an error).
C8_MediaMovedFlat ==
    t_status = "done" =>
        \A p \in InitialSrcMedia :
            /\ p \notin DOMAIN fs
            /\ IsFile(fs, Append(DestDir, Basename(p)))
            /\ fs[Append(DestDir, Basename(p))]
                  \in {fs_initial[q] : q \in {r \in InitialSrcMedia :
                                                Basename(r) = Basename(p)}}

\* the archives of the source tree and, transitively, of their contents:
\* pairs <<file name, data>>
RECURSIVE ArchivesWithin(_, _)
ArchivesWithin(found, depth) ==
    IF depth = 0 THEN found
    ELSE ArchivesWithin(
            found \cup UNION {{<<e.name, e.data>> :
                                  e \in {x \in ArchiveContents(a[2]) :
                                            is_rar_file(x.name)}} : a \in found},
            depth - 1)

SourceArchives ==
    ArchivesWithin({<<Basename(p), fs_initial[p]>> :
                       p \in {q \in DOMAIN fs_initial :
                                 UnderSrc(q) /\ IsFile(fs_initial, q)
                                 /\ ~is_media_file(Basename(q))
                                 /\ is_rar_file(Basename(q))}},
                   RecursionLimit)

\* the archives whose staging directory dest/<stem> cannot take the place of
\* a media file's name in dest
PlainArchives == {a \in SourceArchives : ~is_media_file(SplitExt(a[1]).stem)}

\* C9: once the transfer has ended, every recognized media file contained in
\* an archive of the source tree, nested archives included, lies directly in
\* dest and not in the archive's staging directory dest/<stem>.  Stated for
\* the archives whose stem is not itself a media file name, which the claim
\* covers.
C9_ArchiveMediaFlat ==
    t_status \in {"done", "raised"} =>
        \A a \in PlainArchives :
            \A e \in {x \in ArchiveContents(a[2]) : is_media_file(x.name)} :
                /\ IsFile(fs, Append(DestDir, e.name))
                /\ (<<DestDir[1], SplitExt(a[1]).stem>> \o e.rel \o <<e.name>>)
                      \notin DOMAIN fs

\* C18: transfer_media_files never has two active calls walking the same
\* directory and its nesting stays below the interpreter's limit: a call
\* that re-enters the directory it is walking finds the same archive again
\* and extracts it without end.
C18_RecursionBottomsOut ==
    /\ Len(t_stack) < RecursionLimit
    /\ \A i, j \in 1..Len(t_stack) : i < j => t_stack[i].top # t_stack[j].top

(***************************************************************************)
(* Claims about processor.py: the stream selections                        *)
(***************************************************************************)
\* the positions of the configured list whose language some stream of the
\* type is tagged with
MatchedPositions(probe, languages, type) ==
    SelectSeq(UpTo(Len(languages)),
              LAMBDA k : \E st \in StreamsOfType(probe, type) :
                            StreamLang(st) = languages[k])

TaggedAt(probe, type, lang, i) ==
    probe.streams[i].codec_type = type /\ StreamLang(probe.streams[i]) = lang

\* where the probe declares the first stream of the type tagged lang
FirstTagged(probe, type, lang) ==
    CHOOSE i \in 1..Len(probe.streams) :
        /\ TaggedAt(probe, type, lang, i)
        /\ \A j \in 1..(i - 1) : ~TaggedAt(probe, type, lang, j)

\* how many streams of the type the probe declares before position i
StreamsBefore(probe, type, i) ==
    Len(SelectSeq(SubSeq(probe.streams, 1, i - 1),
                  LAMBDA st : st.codec_type = type))

\* C12: collect_audio_streams returns one entry per configured language that
\* some audio stream is tagged with, in the order of the configured list; the
\* entry is the first audio stream with that tag in the probe's declaration
\* order, an untagged stream counting as 'und'; a configured language without a
\* stream adds nothing.
C12_AudioSelectionInConfiguredOrder ==
    sel_call.audio_done =>
        LET probe == sel_call.probe
            languages == sel_call.vidconfig.language.v
            matched == MatchedPositions(probe, languages, "audio")
        IN  /\ Len(sel_audio) = Len(matched)
            /\ \A n \in 1..Len(matched) :
                  LET i == FirstTagged(probe, "audio", languages[matched[n]])
                  IN  /\ sel_audio[n].lang = languages[matched[n]]
                      /\ sel_audio[n].stream = StreamsBefore(probe, "audio", i)
                      /\ sel_audio[n].channels = probe.streams[i].channels
                      /\ sel_audio[n].codec_name = probe.streams[i].codec_name

\* C12 witness: the probe declares an eng audio stream before a fra one, the
\* configuration lists fra before eng, and the selection holds fra's stream
\* (per-type index 1) first and eng's (index 0) second
C12_Witness ==
    /\ sel_call.audio_done
    /\ sel_call.vidconfig.language.v = <<"fra", "eng">>
    /\ Len(sel_call.probe.streams) = 2
    /\ TaggedAt(sel_call.probe, "audio", "eng", 1)
    /\ TaggedAt(sel_call.probe, "audio", "fra", 2)
    /\ Len(sel_audio) = 2
    /\ sel_audio[1].stream = 1
    /\ sel_audio[2].stream = 0

\* C13: collect_subtitle_streams returns at most one entry per configured
\* subtitle language, the first subtitle stream with that tag in declaration
\* order, in the order of the configured list, so never more entries than
\* configured languages.
C13_SubtitleSelectionFirstPerLanguage ==
    sel_call.subtitles_done =>
        LET probe == sel_call.probe
            languages == sel_call.vidconfig.subtitles.v
            matched == MatchedPositions(probe, languages, "subtitle")
        IN  /\ Len(sel_subtitles) <= Len(languages)
            /\ Len(sel_subtitles) = Len(matched)
            /\ \A n \in 1..Len(matched) :
                  LET i == FirstTagged(probe, "subtitle", languages[matched[n]])
                  IN  /\ sel_subtitles[n].lang = languages[matched[n]]
                      /\ sel_subtitles[n].stream =
                            StreamsBefore(probe, "subtitle", i)

(***************************************************************************)
(* Claims about processor.py: the parameters handed to the transcoder      *)
(***************************************************************************)
\* process was called on a probed input that has a video stream and an audio
\* stream of a configured language, with a configuration typed as declared and
\* no unsupported rate-control mode: the case in which it runs the transcoder
TranscoderCase ==
    /\ proc_call.called
    /\ proc_call.probe.ok
    /\ TypedAsDeclared(proc_call.vidconfig)
    /\ HasVideoStream(proc_call.probe)
    /\ ~NoAudioMatch
    /\ ~UnsupportedRcMode

\* the transcoder was run once
OneRun == Len(ffmpeg_runs) = 1

\* C15: in the parameters built for the transcoder, the language metadata of
\* the audio (subtitle) stream at output position idx is the tag that stream
\* was matched on, and there is a metadata entry for exactly the selected
\* positions.
C15_MetadataFollowsMatch ==
    sel_call.params_done =>
        /\ DOMAIN sel_params.metadata_a = Range(Len(sel_audio))
        /\ \A idx \in Range(Len(sel_audio)) :
              sel_params.metadata_a[idx] = sel_audio[idx + 1].lang
        /\ DOMAIN sel_params.metadata_s = Range(Len(sel_subtitles))
        /\ \A idx \in Range(Len(sel_subtitles)) :
              sel_params.metadata_s[idx] = sel_subtitles[idx + 1].lang

\* C16: in the parameters process hands to the transcoder, there is a
\* disposition entry for exactly the selected audio positions, "default" at
\* position 0 and "0" at every other; likewise for the selected subtitles.
C16_FirstSelectedIsDefault ==
    TranscoderCase =>
        /\ OneRun
        /\ LET run == ffmpeg_runs[1]
           IN  /\ DOMAIN run.params.disposition_a = Range(Len(run.audio))
               /\ DOMAIN run.params.disposition_s = Range(Len(run.subtitles))
               /\ \A idx \in Range(Len(run.audio)) :
                     (run.params.disposition_a[idx] = "default") <=> (idx = 0)
               /\ \A idx \in Range(Len(run.audio)) \ {0} :
                     run.params.disposition_a[idx] = "0"
               /\ \A idx \in Range(Len(run.subtitles)) :
                     run.params.disposition_s[idx] =
                        IF idx = 0 THEN "default" ELSE "0"

\* C17: in the parameters process hands to the transcoder, the audio stream
\* at position idx is marked "copy" exactly when its source codec is the
\* target for its channel count (ac3 above two channels, aac otherwise) and is
\* otherwise given that target; every selected subtitle stream is marked "copy".
C17_CodecPerStream ==
    TranscoderCase =>
        /\ OneRun
        /\ LET run == ffmpeg_runs[1]
           IN  /\ DOMAIN run.params.codec_a = Range(Len(run.audio))
               /\ \A idx \in Range(Len(run.audio)) :
                     LET target == IF run.audio[idx + 1].channels > 2
                                   THEN "ac3" ELSE "aac"
                     IN  /\ (run.params.codec_a[idx] = "copy")
                               <=> (run.audio[idx + 1].codec_name = target)
                         /\ run.params.codec_a[idx] \in {"copy", target}
               /\ DOMAIN run.params.codec_s = Range(Len(run.subtitles))
               /\ \A idx \in Range(Len(run.subtitles)) :
                     run.params.codec_s[idx] = "copy"

(***************************************************************************)
(* Claims about cli.py                                                     *)
(***************************************************************************)
\* what the search command's find_videos call returns
SearchFound ==
    FoundByCommand(search_call.kind, search_call.path, search_call.walk,
                   IF search_call.until > 0 THEN search_call.until ELSE 20,
                   IF search_call.only = "" THEN "None" ELSE "only_mp4")

\* C11: when the probe of the first found file fails, get_video_compliance
\* returns the single entry probe_error = false with an empty explanation map,
\* and the search command still completes: it raises nothing and saves a
\* report with an entry for every found file, the failed file's entry
\* listing probe_error alone.
C11_ProbeFailureNonFatal ==
    (/\ search_call.called
     /\ SearchFound.exc = "none"
     /\ SearchFound.val # <<>>
     /\ ~search_call.probe_of[SearchFound.val[1].file].ok) =>
        /\ get_video_compliance(search_call.probe_of[SearchFound.val[1].file],
                                search_call.vidconfig)
              = Returns([results |-> [k \in {"probe_error"} |-> FALSE],
                         verbose |-> Verbose({})])
        /\ search_result.exc = "none"
        /\ search_result.val.saved
        /\ Len(search_result.val.lines) = Len(SearchFound.val)
        /\ search_result.val.lines[1].props = {"probe_error"}

\* the process command found its file and process returns None for it
ProcessGaveNone ==
    /\ cmd_call.called
    /\ FoundByCommand(cmd_call.kind, cmd_call.file, <<cmd_call.file>>,
                      cmd_call.count, "None") = Returns(<<cmd_call.file>>)
    /\ \A interned \in BOOLEAN :
          process([dir |-> cmd_call.file.root, stem |-> cmd_call.file.file],
                  cmd_call.probe, cmd_call.vidconfig, interned).out
              = Returns(NoneValue)

\* C14: when process returns None for the file, the process command leaves
\* the original at the input path: nothing is moved to the backup directory
\* and nothing is renamed onto the input path.
C14_NullResultLeavesInput ==
    ProcessGaveNone =>
        /\ cmd_files.input = "source"
        /\ cmd_files.backup = "absent"

(***************************************************************************)
(* The parameter builder on its own: processor.py:81-131 applied to the    *)
(* selections, without the checks of process that precede it               *)
(***************************************************************************)
\* the builder gives "default" to position 0 and "0" to every other selected
\* position, audio and subtitle alike, and to no other position
BuilderDispositionRule ==
    sel_call.params_done =>
        /\ DOMAIN sel_params.disposition_a = Range(Len(sel_audio))
        /\ DOMAIN sel_params.disposition_s = Range(Len(sel_subtitles))
        /\ \A idx \in Range(Len(sel_audio)) :
              sel_params.disposition_a[idx] = IF idx = 0 THEN "default" ELSE "0"
        /\ \A idx \in Range(Len(sel_subtitles)) :
              sel_params.disposition_s[idx] = IF idx = 0 THEN "default" ELSE "0"

\* the builder marks an audio stream "copy" exactly when its codec is ac3 with
\* more than two channels or aac otherwise, else it names that codec; every
\* subtitle stream is marked "copy"
BuilderCodecRule ==
    sel_call.params_done =>
        /\ DOMAIN sel_params.codec_a = Range(Len(sel_audio))
        /\ \A idx \in Range(Len(sel_audio)) :
              LET target == IF sel_audio[idx + 1].channels > 2 THEN "ac3" ELSE "aac"
              IN  sel_params.codec_a[idx] =
                     IF sel_audio[idx + 1].codec_name = target THEN "copy"
                     ELSE target
        /\ DOMAIN sel_params.codec_s = Range(Len(sel_subtitles))
        /\ \A idx \in Range(Len(sel_subtitles)) : sel_params.codec_s[idx] = "copy"

=============================================================================
